---------------------------- MODULE Spec2Model ----------------------------
(***************************************************************************)
(* A model of util.py: the ModelWrapper family (OpenAIModelWrapper,        *)
(* AzureModelWrapper, OllamaModelWrapper), their usage statistics, their   *)
(* completion log, the cost computation and the message reformatting of    *)
(* the Ollama wrapper.                                                     *)
(*                                                                         *)
(* Encoding of Python values.  A value whose Python type varies from one   *)
(* use to the next is wrapped in a one-field record named after its type:  *)
(* [str |-> "hi"], [list |-> <<...>>], [dict |-> [...]], [float |-> n].    *)
(* Strings that the code slices or searches (URLs, model names) are        *)
(* sequences of one-character strings.  None is the empty sequence and an  *)
(* Optional value x is <<x>>.  Prices are integers in units of 1e-9        *)
(* dollars per token, so 0.000165 / 1000 is 165.                          *)
(***************************************************************************)
EXTENDS Integers, Sequences, FiniteSets, TLC

VARIABLES
    variant,      \* which wrapper class was constructed
    model_name,   \* self.model_name
    log_file,     \* self.log_file: None or <<path>>
    stats,        \* self.stats
    logfile,      \* the lines of the file at self.log_file
    stream,       \* the generator returned by stream_complete, and its consumer
    arg,          \* the argument of the pure function under study
    out,          \* what the last operation returned or raised
    ghost         \* history kept for stating properties, never read by the code

vars == <<variant, model_name, log_file, stats, logfile, stream, arg, out, ghost>>

----------------------------------------------------------------------------
(* Bounds of the model *)

\* method calls made on the wrapper (complete, structured_complete, stream_complete)
MaxCalls == 2

\* how many of the operations may end in an exception
MaxFailures == 1

\* content parts per message
MaxParts == 2

\* the token counts a backend reports for one call
TokenCounts == {1, 2}

----------------------------------------------------------------------------
(* Python values *)

None == <<>>

Some(x) == <<x>>

PyStr(s) == [str |-> s]

PyList(l) == [list |-> l]

PyDict(d) == [dict |-> d]

PyFloat(n) == [float |-> n]

NoValue == [none |-> TRUE]

Returned(op, v) == [op |-> op, kind |-> "return", value |-> v, error |-> ""]

Raised(op, e) == [op |-> op, kind |-> "raise", value |-> NoValue, error |-> e]

NoCall == [op |-> "", kind |-> "none", value |-> NoValue, error |-> ""]

\* sub in s, for Python strings
Contains(sub, s) ==
    \E i \in 0..(Len(s) - Len(sub)) : SubSeq(s, i + 1, i + Len(sub)) = sub

\* s[n:], for Python strings
SliceFrom(s, n) == SubSeq(s, n + 1, Len(s))

----------------------------------------------------------------------------
(* Data URLs: local_image_to_data_url *)

MimePng == <<"i","m","a","g","e","/","p","n","g">>

MimeJpeg == <<"i","m","a","g","e","/","j","p","e","g">>

MimeOctet == <<"a","p","p","l","i","c","a","t","i","o","n","/",
               "o","c","t","e","t","-","s","t","r","e","a","m">>

MimeTypes == {MimePng, MimeJpeg, MimeOctet}

Payloads == {<<"Q","U","J","D">>, <<"/","9","j","/","4","A","=","=">>}

DataUrlHeader(mime) ==
    <<"d","a","t","a",":">> \o mime \o <<";","b","a","s","e","6","4",",">>

local_image_to_data_url(mime, payload) == DataUrlHeader(mime) \o payload

----------------------------------------------------------------------------
(* Messages in the OpenAI shape: a role and a list of content parts *)

Roles == {"system", "user", "assistant"}

Texts == {"hi", "describe"}

TextPart(t) == [type |-> "text", text |-> PyStr(t)]

ImagePart(u) == [type |-> "image_url", image_url |-> [url |-> u]]

DataUrls == {local_image_to_data_url(m, p) : m \in MimeTypes, p \in Payloads}

Parts == {TextPart(t) : t \in Texts} \cup {ImagePart(u) : u \in DataUrls}

RECURSIVE SeqsUpTo(_, _)
SeqsUpTo(S, n) ==
    IF n = 0 THEN {<<>>}
    ELSE LET shorter == SeqsUpTo(S, n - 1)
         IN  shorter \cup {Append(s, x) : s \in shorter, x \in S}

OpenAIMessage(r, parts) == [role |-> r, content |-> PyList(parts)]

IsText(p) == p.type = "text"

IsImage(p) == p.type = "image_url"

NumText(parts) == Cardinality({i \in 1..Len(parts) : IsText(parts[i])})

NumImage(parts) == Cardinality({i \in 1..Len(parts) : IsImage(parts[i])})

----------------------------------------------------------------------------
(* OllamaModelWrapper._ollama_reformat_messages *)

ImagePrefixLen == 22

\* a reformatting that expects the text to be the first part
DictOfPartsTextFirst(parts, type) ==
    LET at == {i \in 1..Len(parts) : parts[i].type = type}
    IN  IF type = "text"
        THEN (IF 1 \in at THEN Some(parts[1].text) ELSE None)
        ELSE IF at = {} THEN None
        ELSE Some(parts[CHOOSE i \in at : \A j \in at : j <= i].image_url)

\* msg = {m['type'] : m[m['type']] for m in msg_raw['content']}: a later part
\* of a type replaces an earlier one; None when no part has the type
RECURSIVE DictOfParts(_, _)
DictOfParts(parts, type) ==
    IF parts = <<>> THEN None
    ELSE LET p == parts[Len(parts)]
         IN  IF p.type = type
             THEN Some(IF type = "text" THEN p.text ELSE p.image_url)
             ELSE DictOfParts(SubSeq(parts, 1, Len(parts) - 1), type)

\* msg['image_url']['url'][22:]
OllamaStripPrefix(url) == SliceFrom(url, ImagePrefixLen)

\* One iteration of the loop: the o_msg built for msg_raw, or the KeyError
\* of msg['text'] when the message has no text part.
OllamaReformatOne(msg_raw) ==
    LET parts == msg_raw.content.list
        text  == DictOfParts(parts, "text")
        image == DictOfParts(parts, "image_url")
    IN  IF text = None THEN [ok |-> FALSE, error |-> "KeyError"]
        ELSE IF image = None
        THEN [ok |-> TRUE, msg |-> [role |-> msg_raw.role, content |-> text[1]]]
        ELSE [ok |-> TRUE,
              msg |-> [role |-> msg_raw.role, content |-> text[1],
                       images |-> <<OllamaStripPrefix(image[1].url)>>]]

_ollama_reformat_messages(messages) ==
    IF \E i \in 1..Len(messages) : ~OllamaReformatOne(messages[i]).ok
    THEN [ok |-> FALSE, error |-> "KeyError"]
    ELSE [ok |-> TRUE,
          msgs |-> [i \in 1..Len(messages) |-> OllamaReformatOne(messages[i]).msg]]

----------------------------------------------------------------------------
(* OllamaModelWrapper._openai_reformat_messages *)

_openai_reformat_messages(ollama_msg) ==
    [role |-> ollama_msg.role,
     content |-> PyDict([type |-> "text", text |-> ollama_msg.content])]

----------------------------------------------------------------------------
(* ModelWrapper.compute_cost *)

Gpt4o == <<"g","p","t","-","4","o">>

Gpt35 == <<"g","p","t","-","3","5">>

Mini == <<"m","i","n","i">>

Aug2024 == <<"2","0","2","4","-","0","8","-","0","6">>

Dash == <<"-">>

ModelNames ==
    { Gpt4o,
      Gpt4o \o Dash \o Mini,
      Gpt4o \o Dash \o Aug2024,
      Gpt4o \o Dash \o Mini \o Dash \o Aug2024,
      Gpt35 \o <<"-","t","u","r","b","o">>,
      Gpt35 \o Dash \o Gpt4o,
      <<"g","p","t","-","4">>,
      <<"f","o","o","-","b","a","r">>,
      Mini \o <<"c","p","m","-","v">> }

ExplicitPrices == {3, 7}

\* a lookup without the "mini" branch
PriceLookupIgnoringMini(name) ==
    IF Contains(Gpt4o, name)
    THEN (IF Contains(Aug2024, name) THEN Some(<<2500, 10000>>)
          ELSE Some(<<5000, 15000>>))
    ELSE IF Contains(Gpt35, name) THEN Some(<<500, 1500>>)
    ELSE None

\* lines 103-121: the price pair chosen from the model name, None where the
\* code raises ValueError
PriceLookup(name) ==
    IF Contains(Gpt4o, name)
    THEN (IF Contains(Mini, name) THEN Some(<<165, 660>>)
          ELSE IF Contains(Aug2024, name) THEN Some(<<2500, 10000>>)
          ELSE Some(<<5000, 15000>>))
    ELSE IF Contains(Gpt35, name) THEN Some(<<500, 1500>>)
    ELSE None

\* lines 123-127
TotalCost(st, in_cost, out_cost) ==
    st.input_tokens * in_cost + st.completion_tokens * out_cost

compute_cost(name, st, input_token_cost, output_token_cost) ==
    IF input_token_cost = None
    THEN IF output_token_cost # None
         THEN Raised("compute_cost", "AssertionError")
         ELSE IF PriceLookup(name) = None
         THEN Raised("compute_cost", "ValueError")
         ELSE Returned("compute_cost",
                  PyFloat(TotalCost(st, PriceLookup(name)[1][1], PriceLookup(name)[1][2])))
    ELSE IF output_token_cost = None
         THEN Raised("compute_cost", "TypeError")   \* int * None
         ELSE Returned("compute_cost",
                  PyFloat(TotalCost(st, input_token_cost[1], output_token_cost[1])))

----------------------------------------------------------------------------
(* Construction: ModelWrapper.__init__ and the three subclasses *)

Variants == {"openai", "azure", "ollama"}

\* the model_name defaults of the subclasses
DefaultModel(v) == IF v = "ollama" THEN Mini \o <<"c","p","m","-","v">> ELSE Gpt4o

FreshStats == [requests |-> 0, input_tokens |-> 0, completion_tokens |-> 0]

NoStream == [state |-> "none", started |-> FALSE, messages |-> <<>>,
             pending |-> <<>>, got |-> <<>>, pulls |-> 0]

NoGhost == [calls |-> 0, returned |-> <<>>, sum_in |-> 0, sum_out |-> 0, raised |-> 0]

NoArg == OpenAIMessage("user", <<TextPart("hi")>>)

----------------------------------------------------------------------------
(* The message reformatting as a machine: one message in, one call each *)

CanonicalMessages ==
    {OpenAIMessage(r, parts) : r \in Roles, parts \in SeqsUpTo(Parts, MaxParts)}

InitAdapter ==
    /\ variant = "ollama"
    /\ model_name = DefaultModel("ollama")
    /\ log_file = None
    /\ stats = FreshStats
    /\ logfile = <<>>
    /\ stream = NoStream
    /\ arg \in CanonicalMessages
    /\ out = NoCall
    /\ ghost = NoGhost

\* _ollama_reformat_messages([arg])
ToLocalShape ==
    /\ out.kind = "none"
    /\ LET r == _ollama_reformat_messages(<<arg>>)
       IN  out' = IF r.ok THEN Returned("_ollama_reformat_messages", PyList(r.msgs))
                  ELSE Raised("_ollama_reformat_messages", r.error)
    /\ UNCHANGED <<variant, model_name, log_file, stats, logfile, stream, arg, ghost>>

\* _openai_reformat_messages(_ollama_reformat_messages([arg])[0])
RoundTrip ==
    /\ out.kind = "none"
    /\ LET r == _ollama_reformat_messages(<<arg>>)
       IN  out' = IF r.ok
                  THEN Returned("round_trip", [msg |-> _openai_reformat_messages(r.msgs[1])])
                  ELSE Raised("round_trip", r.error)
    /\ UNCHANGED <<variant, model_name, log_file, stats, logfile, stream, arg, ghost>>

\* _openai_reformat_messages(arg), arg being in the OpenAI shape already
ToCanonicalShape ==
    /\ out.kind = "none"
    /\ out' = Returned("_openai_reformat_messages", [msg |-> _openai_reformat_messages(arg)])
    /\ UNCHANGED <<variant, model_name, log_file, stats, logfile, stream, arg, ghost>>

NextAdapter == ToLocalShape \/ RoundTrip \/ ToCanonicalShape

SpecAdapter == InitAdapter /\ [][NextAdapter]_vars

----------------------------------------------------------------------------
(* compute_cost as a machine: a model name, usage counters, one call *)

NoPrices == [input_token_cost |-> None, output_token_cost |-> None]

OptionalPrices == {None} \cup {Some(p) : p \in ExplicitPrices}

InitCost ==
    /\ variant = "openai"
    /\ model_name \in ModelNames
    /\ log_file = None
    /\ \E i \in {0} \cup TokenCounts, c \in {0} \cup TokenCounts :
          stats = [requests |-> IF i + c = 0 THEN 0 ELSE 1,
                   input_tokens |-> i, completion_tokens |-> c]
    /\ logfile = <<>>
    /\ stream = NoStream
    /\ arg = NoPrices
    /\ out = NoCall
    /\ ghost = NoGhost

ComputeCost ==
    /\ out.kind = "none"
    /\ \E i \in OptionalPrices, o \in OptionalPrices :
          /\ arg' = [input_token_cost |-> i, output_token_cost |-> o]
          /\ out' = compute_cost(model_name, stats, i, o)
    /\ UNCHANGED <<variant, model_name, log_file, stats, logfile, stream, ghost>>

NextCost == ComputeCost

SpecCost == InitCost /\ [][NextCost]_vars

----------------------------------------------------------------------------
(* The backends.  They are external to util.py; what is modelled is what    *)
(* the wrapper hands them and which fields of their answers it reads.  A    *)
(* backend here is a deterministic test double: the text it produces is a   *)
(* function of the messages it is sent, delivered whole or as fragments.    *)

PngUrl == local_image_to_data_url(MimePng, <<"Q","U","J","D">>)

JpegUrl == local_image_to_data_url(MimeJpeg, <<"Q","U","J","D">>)

Conversations ==
    { <<OpenAIMessage("user", <<TextPart("hi")>>)>>,
      <<OpenAIMessage("system", <<TextPart("describe")>>),
        OpenAIMessage("user", <<ImagePart(PngUrl), TextPart("describe")>>)>>,
      <<OpenAIMessage("user", <<ImagePart(JpegUrl)>>)>> }

FragmentsFor(prompt) ==
    IF prompt = None THEN <<"?">>
    ELSE IF prompt[1] = PyStr("hi") THEN <<"hel", "lo">>
    ELSE <<"a ", "cat", ".">>

RECURSIVE JoinStr(_)
JoinStr(frags) == IF frags = <<>> THEN "" ELSE Head(frags) \o JoinStr(Tail(frags))

\* what the hosted service answers to messages in the OpenAI shape
OpenAIFragments(messages) ==
    FragmentsFor(DictOfParts(messages[Len(messages)].content.list, "text"))

\* what the local server answers to messages in the Ollama shape
OllamaFragments(ollama_messages) ==
    FragmentsFor(Some(ollama_messages[Len(ollama_messages)].content))

Failed(e) == [ok |-> FALSE, error |-> e]

Answered(r) == [ok |-> TRUE, response |-> r]

AssistantMessage(text) == [role |-> "assistant", content |-> PyStr(text)]

\* client.chat.completions.create(...) and client.beta.chat.completions.parse(...):
\* the call raises, or returns a response whose usage and choices may be absent
OpenAICalls(messages, errors) ==
    {Failed(e) : e \in errors}
    \cup {Answered([usage |-> u, choices |-> c]) :
            u \in {None} \cup {Some([prompt_tokens |-> p, completion_tokens |-> t]) :
                                  p \in TokenCounts, t \in TokenCounts},
            c \in {<<>>, <<[message |-> AssistantMessage(JoinStr(OpenAIFragments(messages)))]>>}}

\* client.chat(...) of ollama: the call raises, or returns a dict whose keys
\* 'message' and 'eval_count' may be absent
OllamaCalls(ollama_messages) ==
    {Failed("ConnectionError")}
    \cup {Answered([message |-> m, eval_count |-> e, prompt_eval_count |-> p]) :
            m \in {None, Some(AssistantMessage(JoinStr(OllamaFragments(ollama_messages))))},
            e \in {None} \cup {Some(t) : t \in TokenCounts},
            p \in TokenCounts}

\* the chunks of a streamed answer
OpenAIChunks(messages) ==
    LET f == OpenAIFragments(messages)
    IN  [i \in 1..Len(f) |-> [choices |-> <<[delta |-> [content |-> f[i]]]>>]]

OllamaChunks(ollama_messages) ==
    LET f == OllamaFragments(ollama_messages)
    IN  [i \in 1..Len(f) |-> [message |-> [content |-> f[i]]]]

----------------------------------------------------------------------------
(* ModelWrapper.complete, ModelWrapper.structured_complete *)

Effect(st, file, o) == [stats |-> st, logfile |-> file, out |-> o]

\* json.dumps(msg_copy) + ",\n": the line is represented by the list it
\* serialises and its terminator
LogLine(msg_copy) == [json |-> msg_copy, end |-> ",\n"]

\* a log line written without the response message
AppendLogInputsOnly(file, messages, response_message) ==
    Append(file, LogLine(messages))

\* lines 65-68: msg_copy = messages.copy(); msg_copy.append(...); f.write(...)
AppendLog(file, messages, response_message) ==
    Append(file, LogLine(Append(messages, response_message)))

\* lines 57-69 and 77-94, which differ in the client method called and in
\* what is returned
OpenAIComplete(op, st, lf, file, messages, call, disk_ok) ==
    IF ~call.ok THEN Effect(st, file, Raised(op, call.error))
    ELSE
    LET response == call.response
        st1 == [st EXCEPT !.requests = @ + 1]
    IN  IF response.usage = None THEN Effect(st1, file, Raised(op, "AttributeError"))
        ELSE
        LET st3 == [st1 EXCEPT
                      !.input_tokens = @ + response.usage[1].prompt_tokens,
                      !.completion_tokens = @ + response.usage[1].completion_tokens]
        IN  IF response.choices = <<>> THEN Effect(st3, file, Raised(op, "IndexError"))
            ELSE
            LET message == response.choices[1].message
                result  == IF op = "complete" THEN message.content ELSE [msg |-> message]
            IN  IF lf = None THEN Effect(st3, file, Returned(op, result))
                ELSE IF ~disk_ok THEN Effect(st3, file, Raised(op, "OSError"))
                ELSE Effect(st3, AppendLog(file, messages, message), Returned(op, result))

----------------------------------------------------------------------------
(* OllamaModelWrapper.complete *)

\* lines 188-205, after the messages were reformatted
OllamaComplete(st, lf, file, messages, call, disk_ok) ==
    IF ~call.ok THEN Effect(st, file, Raised("complete", call.error))
    ELSE
    LET response == call.response
    IN  IF response.message = None THEN Effect(st, file, Raised("complete", "KeyError"))
        ELSE
        LET resp_msg == response.message[1]
            st1 == [st EXCEPT !.requests = @ + 1]
        IN  IF response.eval_count = None
            THEN Effect(st1, file, Raised("complete", "KeyError"))
            ELSE
            LET st3 == [st1 EXCEPT
                          !.input_tokens = @ + response.eval_count[1],
                          !.completion_tokens = @ + response.eval_count[1]]
            IN  IF lf = None THEN Effect(st3, file, Returned("complete", resp_msg.content))
                ELSE IF ~disk_ok THEN Effect(st3, file, Raised("complete", "OSError"))
                ELSE Effect(st3,
                            AppendLog(file, messages, _openai_reformat_messages(resp_msg)),
                            Returned("complete", resp_msg.content))

----------------------------------------------------------------------------
(* The generators of stream_wrapper and OllamaModelWrapper.stream_complete *)

Generator(started, messages, pending) ==
    [state |-> "suspended", started |-> started, messages |-> messages,
     pending |-> pending, got |-> <<>>, pulls |-> 0]

\* response.choices[0].delta.content, chunk['message']['content']
ChunkContent(v, chunk) ==
    IF v = "ollama" THEN chunk.message.content ELSE chunk.choices[1].delta.content

\* a loop that loses every other chunk
GeneratorStepSkipping(v, pending) ==
    IF Len(pending) < 2 THEN [stop |-> TRUE]
    ELSE [stop |-> FALSE, yield |-> ChunkContent(v, pending[2]),
          rest |-> SubSeq(pending, 3, Len(pending))]

\* one resumption of `for response in stream: yield ...`: the next chunk's
\* content is yielded, or the loop ends and the generator with it
GeneratorStep(v, pending) ==
    IF pending = <<>> THEN [stop |-> TRUE]
    ELSE [stop |-> FALSE, yield |-> ChunkContent(v, pending[1]), rest |-> Tail(pending)]

\* next(generator) on a generator whose request has been issued
Resume(v, g, pending) ==
    LET step == GeneratorStep(v, pending)
    IN  IF step.stop
        THEN [stream |-> [g EXCEPT !.state = "done", !.started = TRUE,
                                   !.pending = <<>>, !.pulls = @ + 1],
              out |-> Raised("next", "StopIteration")]
        ELSE [stream |-> [g EXCEPT !.started = TRUE, !.pending = step.rest,
                                   !.got = Append(@, step.yield), !.pulls = @ + 1],
              out |-> Returned("next", PyStr(step.yield))]

\* next(generator) ending in an exception raised inside the generator
Abort(g, e) ==
    [stream |-> [g EXCEPT !.state = "failed", !.started = TRUE, !.pulls = @ + 1],
     out |-> Raised("next", e)]

----------------------------------------------------------------------------
(* The wrapper as a machine: one instance, its caller, its backend *)

Hosted == {"openai", "azure"}

MayFail == ghost.raised < MaxFailures

Called(g) == [g EXCEPT !.calls = @ + 1]

Failure(g) == [g EXCEPT !.raised = @ + 1]

DiskStates == IF log_file = None THEN {TRUE} ELSE BOOLEAN

\* the history: what a call that returned was given and was answered, and
\* the token counts the backend reported for it
Account(op, messages, reported_in, reported_out, message) ==
    [Called(ghost) EXCEPT
        !.returned = Append(@, [op |-> op, messages |-> messages,
                                role |-> message.role, text |-> message.content]),
        !.sum_in = @ + reported_in,
        !.sum_out = @ + reported_out]

AccountOpenAI(o, op, messages, call) ==
    IF o.kind = "return"
    THEN Account(op, messages, call.response.usage[1].prompt_tokens,
                 call.response.usage[1].completion_tokens,
                 call.response.choices[1].message)
    ELSE Failure(Called(ghost))

AccountOllama(o, messages, call) ==
    IF o.kind = "return"
    THEN Account("complete", messages, call.response.prompt_eval_count,
                 call.response.eval_count[1], call.response.message[1])
    ELSE Failure(Called(ghost))

Init ==
    /\ variant \in Variants
    /\ model_name = DefaultModel(variant)
    /\ log_file \in {None, Some("completions.log")}
    /\ stats = FreshStats
    /\ logfile = <<>>
    /\ stream = NoStream
    /\ arg = NoArg
    /\ out = NoCall
    /\ ghost = NoGhost

\* ModelWrapper.complete on the OpenAI and Azure wrappers
Complete ==
    /\ variant \in Hosted
    /\ ghost.calls < MaxCalls
    /\ \E messages \in Conversations, disk_ok \in DiskStates :
       \E call \in OpenAICalls(messages, {"APIConnectionError"}) :
          LET e == OpenAIComplete("complete", stats, log_file, logfile,
                                  messages, call, disk_ok)
          IN  /\ e.out.kind = "return" \/ MayFail
              /\ stats' = e.stats
              /\ logfile' = e.logfile
              /\ out' = e.out
              /\ ghost' = AccountOpenAI(e.out, "complete", messages, call)
    /\ UNCHANGED <<variant, model_name, log_file, stream, arg>>

\* ModelWrapper.structured_complete on the OpenAI and Azure wrappers
StructuredComplete ==
    /\ variant \in Hosted
    /\ ghost.calls < MaxCalls
    /\ \E messages \in Conversations, disk_ok \in DiskStates :
       \E call \in OpenAICalls(messages, {"APIConnectionError", "ValidationError"}) :
          LET e == OpenAIComplete("structured_complete", stats, log_file, logfile,
                                  messages, call, disk_ok)
          IN  /\ e.out.kind = "return" \/ MayFail
              /\ stats' = e.stats
              /\ logfile' = e.logfile
              /\ out' = e.out
              /\ ghost' = AccountOpenAI(e.out, "structured_complete", messages, call)
    /\ UNCHANGED <<variant, model_name, log_file, stream, arg>>

\* ModelWrapper.structured_complete inherited by the Ollama wrapper:
\* self.client.beta does not exist on ollama.Client
OllamaStructuredComplete ==
    /\ variant = "ollama"
    /\ ghost.calls < MaxCalls
    /\ MayFail
    /\ out' = Raised("structured_complete", "AttributeError")
    /\ ghost' = Failure(Called(ghost))
    /\ UNCHANGED <<variant, model_name, log_file, stats, logfile, stream, arg>>

\* OllamaModelWrapper.complete
OllamaCompleteCall ==
    /\ variant = "ollama"
    /\ ghost.calls < MaxCalls
    /\ \E messages \in Conversations, disk_ok \in DiskStates :
          LET r == _ollama_reformat_messages(messages)
          IN  IF ~r.ok
              THEN /\ MayFail
                   /\ out' = Raised("complete", r.error)
                   /\ ghost' = Failure(Called(ghost))
                   /\ UNCHANGED <<stats, logfile>>
              ELSE \E call \in OllamaCalls(r.msgs) :
                     LET e == OllamaComplete(stats, log_file, logfile,
                                             messages, call, disk_ok)
                     IN  /\ e.out.kind = "return" \/ MayFail
                         /\ stats' = e.stats
                         /\ logfile' = e.logfile
                         /\ out' = e.out
                         /\ ghost' = AccountOllama(e.out, messages, call)
    /\ UNCHANGED <<variant, model_name, log_file, stream, arg>>

\* a stream_complete that counts the request as complete does
StreamCompleteCounting ==
    /\ variant \in Hosted
    /\ ghost.calls < MaxCalls
    /\ \E messages \in Conversations :
          /\ stream' = Generator(TRUE, messages, OpenAIChunks(messages))
          /\ out' = Returned("stream_complete", [generator |-> TRUE])
    /\ stats' = [stats EXCEPT !.requests = @ + 1]
    /\ ghost' = Called(ghost)
    /\ UNCHANGED <<variant, model_name, log_file, logfile, arg>>

\* ModelWrapper.stream_complete: the request is issued by the call, the
\* generator of stream_wrapper is returned unstarted
StreamComplete ==
    /\ variant \in Hosted
    /\ ghost.calls < MaxCalls
    /\ \E messages \in Conversations, ok \in BOOLEAN :
          IF ok
          THEN /\ stream' = Generator(TRUE, messages, OpenAIChunks(messages))
               /\ out' = Returned("stream_complete", [generator |-> TRUE])
               /\ ghost' = Called(ghost)
          ELSE /\ MayFail
               /\ stream' = stream
               /\ out' = Raised("stream_complete", "APIConnectionError")
               /\ ghost' = Failure(Called(ghost))
    /\ UNCHANGED <<variant, model_name, log_file, stats, logfile, arg>>

\* OllamaModelWrapper.stream_complete is a generator function: calling it
\* runs none of its body
OllamaStreamComplete ==
    /\ variant = "ollama"
    /\ ghost.calls < MaxCalls
    /\ \E messages \in Conversations :
          stream' = Generator(FALSE, messages, <<>>)
    /\ out' = Returned("stream_complete", [generator |-> TRUE])
    /\ ghost' = Called(ghost)
    /\ UNCHANGED <<variant, model_name, log_file, stats, logfile, arg>>

\* next(generator): the consumer asks for one more fragment; the backend
\* delivers the next chunk or the transport fails
Pull ==
    /\ stream.state = "suspended"
    /\ \E ok \in BOOLEAN :
          LET r == _ollama_reformat_messages(stream.messages)
              e == IF stream.started
                   THEN (IF ok THEN Resume(variant, stream, stream.pending)
                         ELSE Abort(stream, "ConnectionError"))
                   ELSE IF ~r.ok THEN Abort(stream, r.error)
                   ELSE IF ~ok THEN Abort(stream, "ConnectionError")
                   ELSE Resume(variant, stream, OllamaChunks(r.msgs))
          IN  /\ e.stream.state # "failed" \/ MayFail
              /\ stream' = e.stream
              /\ out' = e.out
              /\ ghost' = IF e.stream.state = "failed" THEN Failure(ghost) ELSE ghost
    /\ UNCHANGED <<variant, model_name, log_file, stats, logfile, arg>>

\* generator.close(), or the consumer dropping the generator
Close ==
    /\ stream.state = "suspended"
    /\ stream' = [stream EXCEPT !.state = "closed", !.pending = <<>>]
    /\ out' = Returned("close", NoValue)
    /\ UNCHANGED <<variant, model_name, log_file, stats, logfile, arg, ghost>>

Next ==
    \/ Complete
    \/ StructuredComplete
    \/ OllamaStructuredComplete
    \/ OllamaCompleteCall
    \/ StreamComplete
    \/ OllamaStreamComplete
    \/ Pull
    \/ Close

Spec == Init /\ [][Next]_vars

----------------------------------------------------------------------------
(* Properties *)

StreamOps == {"stream_complete", "next", "close"}

\* C1: after any sequence of calls to complete and structured_complete that
\* all returned, on a fresh wrapper of any class, requests is the number of
\* calls and input_tokens and completion_tokens are the sums of the input and
\* completion token counts the backend reported for them.
UsageEqualsReported ==
    ghost.raised = 0 =>
        /\ stats.requests = Len(ghost.returned)
        /\ stats.input_tokens = ghost.sum_in
        /\ stats.completion_tokens = ghost.sum_out

\* C2: a step of stream_complete, of pulling a fragment from the generator it
\* returned, or of closing that generator, changes neither the usage
\* statistics nor the log file, whatever the wrapper class and whether or not
\* a log file is configured.
StreamingLeavesUsageAndLog ==
    [][out'.op \in StreamOps => (stats' = stats /\ logfile' = logfile)]_vars

StreamedAfterLoggedCall ==
    /\ log_file # None
    /\ Len(logfile) = 1
    /\ stats.requests = 1
    /\ out.op = "next"
    /\ stream.state = "done"

\* the text of the response message as a log line holds it
LoggedText(m) ==
    IF "dict" \in DOMAIN m.content THEN m.content.dict.text ELSE m.content

\* C3: with a log file configured, the log holds one line per call of
\* complete or structured_complete that returned, in call order, each line
\* being the call's input messages followed by the one response message;
\* with no log file configured the log stays empty.
LogHoldsOneRecordPerCall ==
    IF log_file = None THEN logfile = <<>>
    ELSE /\ Len(logfile) = Len(ghost.returned)
         /\ \A i \in 1..Len(logfile) :
               LET line == logfile[i]
                   call == ghost.returned[i]
                   n    == Len(call.messages)
               IN  /\ line.end = ",\n"
                   /\ Len(line.json) = n + 1
                   /\ SubSeq(line.json, 1, n) = call.messages
                   /\ line.json[n + 1].role = call.role
                   /\ LoggedText(line.json[n + 1]) = call.text

TwoCallsLogged ==
    /\ log_file # None
    /\ Len(logfile) = 2
    /\ logfile[1] # logfile[2]
    /\ Len(ghost.returned) = 2
    /\ ghost.returned[1].messages # ghost.returned[2].messages

CostIs(in_price, out_price) ==
    /\ out.kind = "return"
    /\ out.value = PyFloat(stats.input_tokens * in_price
                           + stats.completion_tokens * out_price)

\* C4: compute_cost without prices picks the price pair by substrings of the
\* model name: "gpt-4o" with "mini" gives (165, 660); "gpt-4o" with
\* "2024-08-06" and no "mini" gives (2500, 10000); any other "gpt-4o" gives
\* (5000, 15000); "gpt-35" without "gpt-4o" gives (500, 1500), in 1e-9 dollars
\* per token; any other name raises ValueError, the unknown-model error.
CostLookupBySubstring ==
    (out.op = "compute_cost" /\ arg = NoPrices) =>
        LET has(x) == Contains(x, model_name)
        IN  /\ (has(Gpt4o) /\ has(Mini)) => CostIs(165, 660)
            /\ (has(Gpt4o) /\ has(Aug2024) /\ ~has(Mini)) => CostIs(2500, 10000)
            /\ (has(Gpt4o) /\ ~has(Aug2024) /\ ~has(Mini)) => CostIs(5000, 15000)
            /\ (has(Gpt35) /\ ~has(Gpt4o)) => CostIs(500, 1500)
            /\ (~has(Gpt35) /\ ~has(Gpt4o)) =>
                   (out.kind = "raise" /\ out.error = "ValueError")

MiniWithDateCosted ==
    /\ out.op = "compute_cost"
    /\ arg = NoPrices
    /\ model_name = Gpt4o \o Dash \o Mini \o Dash \o Aug2024
    /\ stats.input_tokens = 1
    /\ stats.completion_tokens = 2
    /\ out.kind = "return"

\* the exception by which compute_cost rejects its arguments: the assert of line 102
InvalidArgumentError == "AssertionError"

\* C5: compute_cost given exactly one of the two prices raises the
\* invalid-argument error, whichever price it is, for every model name and
\* every value of the usage statistics, and returns no cost.
OnePriceIsRejected ==
    (/\ out.op = "compute_cost"
     /\ (arg.input_token_cost = None) # (arg.output_token_cost = None)) =>
        (out.kind = "raise" /\ out.error = InvalidArgumentError)

\* the value of the one text part of a message that has exactly one
OnlyText(parts) == (CHOOSE i \in 1..Len(parts) : IsText(parts[i]))

\* C6: for a message with exactly one text part and at most one image part,
\* _openai_reformat_messages of what _ollama_reformat_messages makes of it is
\* a message with its role whose text is the text of that part.
RoundTripKeepsRoleAndText ==
    (/\ out.op = "round_trip"
     /\ NumText(arg.content.list) = 1
     /\ NumImage(arg.content.list) <= 1) =>
        /\ out.kind = "return"
        /\ out.value.msg.role = arg.role
        /\ out.value.msg.content.dict.type = "text"
        /\ out.value.msg.content.dict.text
              = arg.content.list[OnlyText(arg.content.list)].text

RoundTripOfImageThenText ==
    /\ out.op = "round_trip"
    /\ out.kind = "return"
    /\ Len(arg.content.list) = 2
    /\ IsImage(arg.content.list[1])
    /\ IsText(arg.content.list[2])

\* C7: _openai_reformat_messages applied to a message already in the OpenAI
\* shape (a role and a list of content parts) returns that message unchanged.
ToCanonicalShapeIsIdempotent ==
    out.op = "_openai_reformat_messages" =>
        (out.kind = "return" /\ out.value.msg = arg)

\* C9: _ollama_reformat_messages gives a message with one image part, whose
\* url is a data URL of any MIME type, an images list holding exactly the
\* base64 payload of the url, and gives a message with no image part no
\* images field.
ImagePayloadIsExtracted ==
    (/\ out.op = "_ollama_reformat_messages"
     /\ out.kind = "return"
     /\ NumImage(arg.content.list) <= 1) =>
        LET o_msg == out.value.list[1]
            parts == arg.content.list
        IN  IF NumImage(parts) = 0 THEN "images" \notin DOMAIN o_msg
            ELSE /\ "images" \in DOMAIN o_msg
                 /\ \A i \in 1..Len(parts), mime \in MimeTypes, payload \in Payloads :
                       (/\ IsImage(parts[i])
                        /\ parts[i].image_url.url = local_image_to_data_url(mime, payload))
                       => o_msg.images = <<payload>>

\* the fragments the backend streams for the messages the generator was given
StreamedFragments ==
    IF variant \in Hosted THEN OpenAIFragments(stream.messages)
    ELSE IF _ollama_reformat_messages(stream.messages).ok
    THEN OllamaFragments(_ollama_reformat_messages(stream.messages).msgs)
    ELSE <<>>

\* C8: the generator returned by stream_complete yields the backend's
\* fragments once each and in order, one per pull and none without a pull,
\* and ends after the last one; the fragments of an exhausted generator,
\* joined, are the text complete returned for the same messages.
StreamYieldsReplyInOrder ==
    stream.state # "none" =>
        /\ Len(stream.got) <= Len(StreamedFragments)
        /\ stream.got = SubSeq(StreamedFragments, 1, Len(stream.got))
        /\ Len(stream.got)
              = stream.pulls - (IF stream.state \in {"done", "failed"} THEN 1 ELSE 0)
        /\ stream.state = "done" =>
              /\ stream.got = StreamedFragments
              /\ \A i \in 1..Len(ghost.returned) :
                    (/\ ghost.returned[i].op = "complete"
                     /\ ghost.returned[i].messages = stream.messages)
                    => ghost.returned[i].text = PyStr(JoinStr(stream.got))

StreamExhaustedAfterComplete ==
    /\ stream.state = "done"
    /\ Len(stream.got) >= 2
    /\ \E i \in 1..Len(ghost.returned) :
          /\ ghost.returned[i].op = "complete"
          /\ ghost.returned[i].messages = stream.messages

\* C10: a call of complete or structured_complete that raises leaves the
\* usage statistics as they were, so requests is always the number of calls
\* that returned.
UsageCountsReturnedCallsOnly ==
    stats.requests = Len(ghost.returned)

============================================================================
